---- MODULE Spec2Model ----
(***************************************************************************)
(* Model of src/sys/system_v/shm.rs: the SharedMemory<T> handle over a     *)
(* System V shared memory segment, one client process using its API        *)
(* (shmget, new, shmctl, Deref, DerefMut, Clone, Drop) and the test        *)
(* fixture FixtureShm, together with the kernel's segment table that the   *)
(* four libc calls act on (as the module's doc comments describe it).      *)
(***************************************************************************)
EXTENDS Integers, Sequences, FiniteSets, TLC

\* ------------------------------------------------------------------ bounds
MaxSegs == 2
MaxHandles == 2
\* API calls made before the owning scope is left
MaxOps == 5

SegIds == 1..MaxSegs
HandleIds == 1..MaxHandles
\* a zeroed segment, or the value the test stores
Values == {0, 1}

\* --------------------------------------------------- libc / test constants
IPC_PRIVATE == 0
IPC_CREAT == 512
IPC_EXCL == 1024
SHM_RDONLY == 4096
SHM_RND == 8192
IPC_RMID == 0
IPC_SET == 1
IPC_STAT == 2
SHM_TEST == 1337
S_IRWXUGO == 511
S_IRUSR == 256
S_IROTH == 4
SizeOfT == 8

\* ------------------------------------------------------------- addresses
NULL == <<"null", 0>>
MAP_FAILED == <<"failed", 0>>
ShmAddr(n) == <<"shm", n>>
HeapAddr(n) == <<"heap", n>>
\* the address of the match-arm local `ptr` in shmat / shmctl
AddrOfLocal == <<"stack", 0>>
\* the address of the status structure the caller of shmctl holds
AddrOfCallerBuf == <<"caller", 0>>

None == <<"none", NULL>>
Some(x) == <<"some", x>>
IsSome(o) == o[1] = "some"
Unwrap(o) == o[2]

\* a shmid_ds value: the permission bits are the part that is modelled
ShmidDs(perm) == <<"shmid_ds", perm>>
PermOf(ds) == ds[2]

\* ------------------------------------------------------------ bit words
RECURSIVE BitOr(_, _)
BitOr(a, b) ==
    IF a = 0 THEN b
    ELSE IF b = 0 THEN a
    ELSE (IF a % 2 = 1 \/ b % 2 = 1 THEN 1 ELSE 0) + 2 * BitOr(a \div 2, b \div 2)

RECURSIVE BitAnd(_, _)
BitAnd(a, b) ==
    IF a = 0 \/ b = 0 THEN 0
    ELSE (IF a % 2 = 1 /\ b % 2 = 1 THEN 1 ELSE 0) + 2 * BitAnd(a \div 2, b \div 2)

HasBits(word, bits) == BitAnd(word, bits) = bits

\* ------------------------------------------------------------ results
Ok(v) == [ok |-> TRUE, val |-> v, errno |-> "none"]
Err(e) == [ok |-> FALSE, val |-> 0, errno |-> e]

\* Errno::result: the sentinel return value becomes Err(errno), anything
\* else Ok(value)
ErrnoResult(rv, errno, sentinel) == IF rv = sentinel THEN Err(errno) ELSE Ok(rv)

\* one libc call: `id` is the key or the identifier, `ptr` the pointer
\* argument, `flags` the flag word or command, `rv` the integer returned
\* and `rvp` the pointer returned (shmat)
Sys(name, id, ptr, flags, rv, rvp, errno) ==
    [name |-> name, id |-> id, ptr |-> ptr, flags |-> flags, rv |-> rv, rvp |-> rvp,
     errno |-> errno]

VARIABLES kern, handles, heap, status, last, dtlog, written, nops

vars == <<kern, handles, heap, status, last, dtlog, written, nops>>

\* --------------------------------------------------------------- kernel
NoSeg ==
    [exists |-> FALSE, key |-> IPC_PRIVATE, ckey |-> IPC_PRIVATE, nattch |-> 0,
     dest |-> FALSE, data |-> 0, perm |-> 0]
NoMap == [id |-> 0, ro |-> FALSE]

ValidId(k, id) == id \in SegIds /\ k.seg[id].exists

KeyOwners(k, key) == {s \in SegIds : k.seg[s].exists /\ k.seg[s].key = key}

\* shmget(2): IPC_PRIVATE always creates; IPC_CREAT creates when no segment
\* has the key; IPC_CREAT | IPC_EXCL fails when one has it
KShmgetCreates(k, key, flags) ==
    \/ key = IPC_PRIVATE
    \/ KeyOwners(k, key) = {} /\ HasBits(flags, IPC_CREAT)

KShmget(k, key, size, flags) ==
    IF KShmgetCreates(k, key, flags)
    THEN [rv |-> k.nextId, errno |-> "none",
          k |-> [k EXCEPT !.seg[k.nextId] =
                            [exists |-> TRUE, key |-> key, ckey |-> key, nattch |-> 0,
                             dest |-> FALSE, data |-> 0,
                             perm |-> BitAnd(flags, S_IRWXUGO)],
                          !.nextId = k.nextId + 1]]
    ELSE IF KeyOwners(k, key) = {}
    THEN [rv |-> -1, errno |-> "ENOENT", k |-> k]
    ELSE IF HasBits(flags, IPC_CREAT) /\ HasBits(flags, IPC_EXCL)
    THEN [rv |-> -1, errno |-> "EEXIST", k |-> k]
    ELSE [rv |-> CHOOSE s \in KeyOwners(k, key) : TRUE, errno |-> "none", k |-> k]

FreeAddrs(k) == {n \in HandleIds : k.maps[n].id = 0}

\* shmat(2): a null address lets the kernel choose (first free slot); the
\* address of a stack local is unaligned or already mapped: EINVAL
KShmat(k, id, addr, flags) ==
    IF ~ValidId(k, id)
    THEN [rv |-> MAP_FAILED, errno |-> "EINVAL", k |-> k]
    ELSE IF addr # NULL
    THEN [rv |-> MAP_FAILED, errno |-> "EINVAL", k |-> k]
    ELSE IF FreeAddrs(k) = {}
    THEN [rv |-> MAP_FAILED, errno |-> "ENOMEM", k |-> k]
    ELSE LET n == CHOOSE m \in FreeAddrs(k) : \A o \in FreeAddrs(k) : m <= o
         IN  [rv |-> ShmAddr(n), errno |-> "none",
              k |-> [k EXCEPT !.maps[n] = [id |-> id, ro |-> HasBits(flags, SHM_RDONLY)],
                              !.seg[id].nattch = @ + 1]]

\* the segment is destroyed once it is marked and nothing is attached
Reap(sg) ==
    IF sg.dest /\ sg.nattch = 0
    THEN [sg EXCEPT !.exists = FALSE, !.key = IPC_PRIVATE, !.data = 0, !.perm = 0]
    ELSE sg

\* shmdt(2): EINVAL when no segment is attached at the address
KShmdt(k, addr) ==
    IF addr[1] = "shm" /\ addr[2] \in HandleIds /\ k.maps[addr[2]].id # 0
    THEN LET id == k.maps[addr[2]].id
         IN  [rv |-> 0, errno |-> "none",
              k |-> [k EXCEPT !.maps[addr[2]] = NoMap,
                              !.seg[id] = Reap([@ EXCEPT !.nattch = @ - 1])]]
    ELSE [rv |-> -1, errno |-> "EINVAL", k |-> k]

\* shmctl(2).  `bufp` is the pointer passed, `inval` what the kernel reads
\* there (IPC_SET).  `out` is what the kernel stores at bufp (IPC_STAT).
KShmctl(k, id, cmd, bufp, inval) ==
    IF ~ValidId(k, id)
    THEN [rv |-> -1, errno |-> "EINVAL", k |-> k, out |-> None]
    ELSE IF cmd = IPC_RMID
    THEN [rv |-> 0, errno |-> "none", out |-> None,
          k |-> [k EXCEPT !.seg[id] = Reap([@ EXCEPT !.dest = TRUE, !.key = IPC_PRIVATE])]]
    ELSE IF cmd \notin {IPC_SET, IPC_STAT}
    THEN [rv |-> -1, errno |-> "EINVAL", k |-> k, out |-> None]
    ELSE IF bufp = NULL
    THEN [rv |-> -1, errno |-> "EFAULT", k |-> k, out |-> None]
    ELSE IF cmd = IPC_STAT
    THEN [rv |-> 0, errno |-> "none", k |-> k, out |-> Some(ShmidDs(k.seg[id].perm))]
    ELSE [rv |-> 0, errno |-> "none", out |-> None,
          k |-> [k EXCEPT !.seg[id].perm = BitAnd(PermOf(inval), S_IRWXUGO)]]

\* ------------------------------------------------- SharedMemory<T> wrapper
NoHandle == [st |-> "none", id |-> 0, addr |-> NULL, origin |-> "none", fixture |-> FALSE]

Live(h) == handles[h].st = "live"
Attached(h) == Live(h) /\ handles[h].origin = "new"
FreeSlots == {h \in HandleIds : handles[h].st = "none"}
FreeSlot == CHOOSE h \in FreeSlots : \A o \in FreeSlots : h <= o

\* (mutant) the raw return value of libc::shmget is handed back as Ok
shmget_raw(k, key, shmget_flag, mode) ==
    LET flags == BitOr(mode, shmget_flag)
        r == KShmget(k, key, SizeOfT, flags)
    IN  [ret |-> Ok(r.rv), k |-> r.k,
         sys |-> Sys("shmget", key, NULL, flags, r.rv, NULL, r.errno)]

\* SharedMemory::shmget
shmget(k, key, shmget_flag, mode) ==
    LET flags == BitOr(mode, shmget_flag)
        r == KShmget(k, key, SizeOfT, flags)
    IN  [ret |-> ErrnoResult(r.rv, r.errno, -1), k |-> r.k,
         sys |-> Sys("shmget", key, NULL, flags, r.rv, NULL, r.errno)]

\* SharedMemory::shmat: a given address is bound to the arm's local `ptr`
\* and the pointer passed is the address of that local
shmat(k, shmid, shmaddr, shmat_flag, mode) ==
    LET shmaddr_ptr == IF IsSome(shmaddr) THEN AddrOfLocal ELSE NULL
        flags == BitOr(mode, shmat_flag)
        r == KShmat(k, shmid, shmaddr_ptr, flags)
    IN  [ret |-> ErrnoResult(r.rv, r.errno, MAP_FAILED), k |-> r.k,
         sys |-> Sys("shmat", shmid, shmaddr_ptr, flags, 0, r.rv, r.errno)]

\* (mutant) the attach result is unwrapped without `?`: a handle is built
\* around whatever shmat returned
new_unchecked(k, hs, shmid, shmaddr, shmat_flag, mode) ==
    LET a == shmat(k, shmid, shmaddr, shmat_flag, mode)
        slot == CHOOSE h \in HandleIds : hs[h].st = "none"
    IN  [ret |-> IF a.ret.ok THEN Ok(slot) ELSE a.ret, k |-> a.k, sys |-> a.sys,
         hs |-> [hs EXCEPT ![slot] =
                   [st |-> "live", id |-> shmid, addr |-> a.sys.rvp,
                    origin |-> "new", fixture |-> FALSE]]]

\* SharedMemory::new: `?` on the attach, then the handle around the address
new(k, hs, shmid, shmaddr, shmat_flag, mode) ==
    LET a == shmat(k, shmid, shmaddr, shmat_flag, mode)
    IN  IF a.ret.ok
        THEN [ret |-> Ok(FreeSlot), k |-> a.k, sys |-> a.sys,
              hs |-> [hs EXCEPT ![FreeSlot] =
                        [st |-> "live", id |-> shmid, addr |-> a.ret.val,
                         origin |-> "new", fixture |-> FALSE]]]
        ELSE [ret |-> Err(a.ret.errno), k |-> a.k, sys |-> a.sys, hs |-> hs]

\* SharedMemory::shmctl: a given buffer is moved into the arm's local `ptr`;
\* the pointer passed is the address of that local, dead when the call is
\* made, so `inval` (what the kernel finds there) is the caller's value or
\* whatever the slot was reused for
shmctl(k, self, shmctl_flag, buf, mode, inval) ==
    LET buf_ptr == IF IsSome(buf) THEN AddrOfLocal ELSE NULL
        flags == BitOr(mode, shmctl_flag)
        r == KShmctl(k, self.id, flags, buf_ptr, inval)
    IN  [ret |-> ErrnoResult(r.rv, r.errno, -1), k |-> r.k,
         sys |-> Sys("shmctl", self.id, buf_ptr, flags, r.rv, NULL, r.errno),
         out |-> [caller |-> buf, local |-> r.out, read |-> inval]]

\* (mutant) the address passed is the handle's own, not the mapped value's
shmdt_of_self(k, self) ==
    LET shmaddr_ref == AddrOfLocal
        r == KShmdt(k, shmaddr_ref)
    IN  [ret |-> ErrnoResult(r.rv, r.errno, -1), k |-> r.k,
         sys |-> Sys("shmdt", 0, shmaddr_ref, 0, r.rv, NULL, r.errno)]

\* SharedMemory::shmdt: the address is the one deref yields
shmdt(k, self) ==
    LET shmaddr_ref == self.addr
        r == KShmdt(k, shmaddr_ref)
    IN  [ret |-> ErrnoResult(r.rv, r.errno, -1), k |-> r.k,
         sys |-> Sys("shmdt", 0, shmaddr_ref, 0, r.rv, NULL, r.errno)]

\* (mutant) the detach result is discarded
drop_silent(k, self) ==
    LET d == shmdt(k, self)
    IN  [k |-> d.k, sys |-> d.sys, panicked |-> FALSE]

\* (mutant) the destructor also removes the segment
drop_rmid(k, self) ==
    LET c == KShmctl(k, self.id, IPC_RMID, NULL, ShmidDs(0))
        d == shmdt(c.k, self)
    IN  [k |-> d.k, sys |-> d.sys, panicked |-> ~d.ret.ok]

\* Drop for SharedMemory<T>: expect() panics on a failed detach
drop(k, self) ==
    LET d == shmdt(k, self)
    IN  [k |-> d.k, sys |-> d.sys, panicked |-> ~d.ret.ok]

\* (mutant) the Box owns a heap copy made at construction
deref_copy(k, hp, self) == hp[self.addr[2]]

\* Deref: the value at the handle's address
deref(k, hp, self) ==
    IF self.addr[1] = "shm" THEN k.seg[k.maps[self.addr[2]].id].data
    ELSE hp[self.addr[2]]

\* what a panic does to the thread: a first one unwinds, one raised while
\* unwinding aborts the process
AfterPanic(st) == IF st = "unwinding" THEN "aborted" ELSE "unwinding"

\* the last operation: the handle it went through (h), its integer
\* argument (n: key, identifier or value), flag, mode and optional argument
\* (opt: shmaddr or buf), the libc calls it made, what it returned, what
\* became of the status buffer, whether it panicked; `path` is how the
\* scope was left (set by LeaveScope and Exit)
Op(op, h, n, flag, mode, opt, sys, ret, out, panicked) ==
    [op |-> op, h |-> h, n |-> n, flag |-> flag, mode |-> mode, opt |-> opt,
     sys |-> sys, ret |-> ret, out |-> out, panicked |-> panicked, path |-> "none"]
NoOut == [caller |-> None, local |-> None, read |-> ShmidDs(0)]
NoWrite == [has |-> FALSE, v |-> 0]

Init ==
    /\ kern = [seg |-> [s \in SegIds |-> NoSeg], maps |-> [n \in HandleIds |-> NoMap],
               nextId |-> 1]
    /\ handles = [h \in HandleIds |-> NoHandle]
    /\ heap = [h \in HandleIds |-> 0]
    /\ status = "running"
    /\ last = Op("start", 0, 0, 0, 0, None, <<>>, Ok(0), NoOut, FALSE)
    /\ dtlog = [h \in HandleIds |-> <<>>]
    /\ written = [s \in SegIds |-> NoWrite]
    /\ nops = 0

\* -------------------------------------------------------- the test fixture
\* FixtureShm::setup: exclusive creation under SHM_TEST, `?`, attach, `?`
setup(k, hs) ==
    LET g == shmget(k, SHM_TEST, BitOr(IPC_CREAT, IPC_EXCL), S_IRWXUGO)
        n == new(g.k, hs, g.ret.val, None, 0, 0)
    IN  IF ~g.ret.ok
        THEN [ret |-> g.ret, k |-> g.k, hs |-> hs, sys |-> <<g.sys>>]
        ELSE IF ~n.ret.ok
        THEN [ret |-> n.ret, k |-> n.k, hs |-> hs, sys |-> <<g.sys, n.sys>>]
        ELSE [ret |-> n.ret, k |-> n.k, sys |-> <<g.sys, n.sys>>,
              hs |-> [n.hs EXCEPT ![n.ret.val].fixture = TRUE]]

\* (mutant) the fixture only detaches
fixture_drop_no_rmid(k, self, st) ==
    LET d == drop(k, self)
    IN  [k |-> d.k, sys |-> <<d.sys, d.sys>>, dropped |-> TRUE, panicked |-> d.panicked,
         st |-> IF d.panicked THEN AfterPanic(st) ELSE st]

\* Drop for FixtureShm: IPC_RMID through the handle, panic when it fails;
\* the field `ipc` is dropped afterwards (also while the panic unwinds,
\* unless the panic was raised during an unwind, which aborts)
fixture_drop(k, self, st) ==
    LET c == shmctl(k, self, IPC_RMID, None, 0, ShmidDs(0))
        d == drop(c.k, self)
    IN  IF ~c.ret.ok /\ st = "unwinding"
        THEN [k |-> c.k, sys |-> <<c.sys>>, dropped |-> FALSE, panicked |-> TRUE,
              st |-> "aborted"]
        ELSE [k |-> d.k, sys |-> <<c.sys, d.sys>>, dropped |-> TRUE,
              panicked |-> ~c.ret.ok \/ d.panicked,
              st |-> IF ~c.ret.ok /\ d.panicked THEN "aborted"
                     ELSE IF ~c.ret.ok \/ d.panicked THEN AfterPanic(st)
                     ELSE st]

\* ------------------------------------------------------------- inputs
KeyInputs == {IPC_PRIVATE, SHM_TEST}
ShmgetFlagInputs == {0, IPC_CREAT, BitOr(IPC_CREAT, IPC_EXCL)}
ShmgetModeInputs == {S_IRWXUGO}
ShmidInputs == 0..MaxSegs
ShmaddrInputs == {None, Some(<<"user", 0>>)}
\* <<shmat_flag, mode>>
ShmatInputs == {<<0, 0>>, <<SHM_RDONLY, 0>>, <<SHM_RND, S_IRUSR>>}
\* <<shmctl_flag, buf, mode>>
ShmctlInputs ==
    {<<IPC_RMID, None, 0>>, <<IPC_RMID, None, S_IROTH>>, <<IPC_STAT, None, 0>>,
     <<IPC_STAT, Some(ShmidDs(0)), 0>>, <<IPC_SET, Some(ShmidDs(S_IRWXUGO)), 0>>}
\* what the kernel can find in the dead slot: the moved buffer, or the
\* `flags` local computed after the match
SlotContents(buf, shmctl_flag, mode) ==
    IF IsSome(buf) THEN {Unwrap(buf), ShmidDs(BitOr(mode, shmctl_flag))} ELSE {ShmidDs(0)}

Unwinding == {"returning", "early", "unwinding"}
Active == {"running"} \cup Unwinding

\* ------------------------------------------------------------- actions
\* the client makes one more API call
Calling ==
    /\ status = "running"
    /\ nops < MaxOps
    /\ nops' = nops + 1

\* the last value stored in each segment that still exists
Forget(w, k) == [s \in SegIds |-> IF k.seg[s].exists THEN w[s] ELSE NoWrite]

CallShmget(key, shmget_flag, mode) ==
    /\ Calling
    /\ LET r == shmget(kern, key, shmget_flag, mode)
       IN  /\ r.k.nextId <= MaxSegs + 1
           /\ kern' = r.k
           /\ last' = Op("shmget", 0, key, shmget_flag, mode, None, <<r.sys>>, r.ret, NoOut, FALSE)
    /\ UNCHANGED <<handles, heap, status, dtlog, written>>

CallNew(shmid, shmaddr, shmat_flag, mode) ==
    /\ Calling
    /\ FreeSlots # {}
    /\ LET r == new(kern, handles, shmid, shmaddr, shmat_flag, mode)
       IN  /\ kern' = r.k
           /\ handles' = r.hs
           /\ last' = Op("new", 0, shmid, shmat_flag, mode, shmaddr, <<r.sys>>, r.ret,
                         NoOut, FALSE)
    /\ UNCHANGED <<heap, status, dtlog, written>>

CallShmctl(h, shmctl_flag, buf, mode) ==
    /\ Calling
    /\ Live(h)
    /\ \E inval \in SlotContents(buf, shmctl_flag, mode) :
         LET r == shmctl(kern, handles[h], shmctl_flag, buf, mode, inval)
         IN  /\ kern' = r.k
             /\ last' = Op("shmctl", h, 0, shmctl_flag, mode, buf, <<r.sys>>, r.ret,
                           r.out, FALSE)
    /\ written' = Forget(written, kern')
    /\ UNCHANGED <<handles, heap, status, dtlog>>

\* Deref: read the value through the handle
Read(h) ==
    /\ Calling
    /\ Live(h)
    /\ last' = Op("deref", h, 0, 0, 0, None, <<>>, Ok(deref(kern, heap, handles[h])), NoOut,
                FALSE)
    /\ UNCHANGED <<kern, handles, heap, status, dtlog, written>>

\* DerefMut: store v at the handle's address; a store into a mapping
\* attached SHM_RDONLY faults and the process is killed
Write(h, v) ==
    /\ Calling
    /\ Live(h)
    /\ LET self == handles[h]
           m == kern.maps[self.addr[2]]
       IN  IF self.addr[1] = "shm"
           THEN IF m.ro
                THEN /\ status' = "killed"
                     /\ UNCHANGED <<kern, heap, written>>
                ELSE /\ kern' = [kern EXCEPT !.seg[m.id].data = v]
                     /\ written' = [written EXCEPT ![m.id] = [has |-> TRUE, v |-> v]]
                     /\ UNCHANGED <<heap, status>>
           ELSE /\ heap' = [heap EXCEPT ![self.addr[2]] = v]
                /\ UNCHANGED <<kern, status, written>>
    /\ last' = Op("deref_mut", h, v, 0, 0, None, <<>>, Ok(v), NoOut, FALSE)
    /\ UNCHANGED <<handles, dtlog>>

\* derive(Clone): id copied, the Box cloned (a heap allocation holding a
\* copy of the value)
Clone(h) ==
    /\ Calling
    /\ Live(h)
    /\ FreeSlots # {}
    /\ handles' = [handles EXCEPT ![FreeSlot] =
                     [st |-> "live", id |-> handles[h].id, addr |-> HeapAddr(FreeSlot),
                      origin |-> "clone", fixture |-> FALSE]]
    /\ heap' = [heap EXCEPT ![FreeSlot] = deref(kern, heap, handles[h])]
    /\ last' = Op("clone", h, 0, 0, 0, None, <<>>, Ok(FreeSlot), NoOut, FALSE)
    /\ UNCHANGED <<kern, status, dtlog, written>>

\* a handle goes out of scope (or is dropped explicitly)
Drop(h) ==
    /\ status \in Active
    /\ Live(h)
    /\ ~handles[h].fixture
    /\ LET d == drop(kern, handles[h])
       IN  /\ kern' = d.k
           /\ dtlog' = [dtlog EXCEPT ![h] = Append(@, d.sys)]
           /\ status' = IF d.panicked THEN AfterPanic(status) ELSE status
           /\ last' = Op("drop", h, 0, 0, 0, None, <<d.sys>>, Ok(0), NoOut, d.panicked)
    /\ handles' = [handles EXCEPT ![h].st = "dead"]
    /\ written' = Forget(written, kern')
    /\ UNCHANGED <<heap, nops>>

Setup ==
    /\ Calling
    /\ FreeSlots # {}
    /\ LET r == setup(kern, handles)
       IN  /\ r.k.nextId <= MaxSegs + 1
           /\ kern' = r.k
           /\ handles' = r.hs
           /\ last' = Op("setup", 0, SHM_TEST, 0, 0, None, r.sys, r.ret, NoOut, FALSE)
    /\ UNCHANGED <<heap, status, dtlog, written>>

FixtureDrop(h) ==
    /\ status \in Active
    /\ Live(h)
    /\ handles[h].fixture
    /\ LET r == fixture_drop(kern, handles[h], status)
       IN  /\ kern' = r.k
           /\ status' = r.st
           /\ handles' = IF r.dropped THEN [handles EXCEPT ![h].st = "dead"] ELSE handles
           /\ dtlog' = IF r.dropped THEN [dtlog EXCEPT ![h] = Append(@, r.sys[2])] ELSE dtlog
           /\ last' = Op("fixture_drop", h, 0, 0, 0, None, r.sys, Ok(0), NoOut, r.panicked)
    /\ written' = Forget(written, kern')
    /\ UNCHANGED <<heap, nops>>

\* the owning scope is left: by returning, by `?` on an error, by a panic
LeaveScope(path) ==
    /\ status = "running"
    /\ path = "early" => ~last.ret.ok
    /\ status' = path
    /\ last' = [Op("leave", 0, 0, 0, 0, None, <<>>, Ok(0), NoOut, path = "unwinding")
                   EXCEPT !.path = path]
    /\ UNCHANGED <<kern, handles, heap, dtlog, written, nops>>

\* every local has been dropped
Exit ==
    /\ status \in Unwinding
    /\ \A h \in HandleIds : ~Live(h)
    /\ status' = "exited"
    /\ last' = [Op("exit", 0, 0, 0, 0, None, <<>>, Ok(0), NoOut, FALSE)
                   EXCEPT !.path = status]
    /\ UNCHANGED <<kern, handles, heap, dtlog, written, nops>>

Next ==
    \/ \E key \in KeyInputs, f \in ShmgetFlagInputs, m \in ShmgetModeInputs :
         CallShmget(key, f, m)
    \/ \E id \in ShmidInputs, a \in ShmaddrInputs, i \in ShmatInputs :
         CallNew(id, a, i[1], i[2])
    \/ \E h \in HandleIds, i \in ShmctlInputs : CallShmctl(h, i[1], i[2], i[3])
    \/ \E h \in HandleIds : Read(h)
    \/ \E h \in HandleIds, v \in Values : Write(h, v)
    \/ \E h \in HandleIds : Clone(h)
    \/ \E h \in HandleIds : Drop(h)
    \/ Setup
    \/ \E h \in HandleIds : FixtureDrop(h)
    \/ \E p \in Unwinding : LeaveScope(p)
    \/ Exit

Spec == Init /\ [][Next]_vars

\* ============================================================== properties
Created(s) == s \in SegIds /\ s < kern.nextId
FromNew(h) == handles[h].origin = "new"
MappingOf(h) == kern.maps[handles[h].addr[2]]
\* the handle's address is a mapping of the segment it attached to
MappingValid(h) ==
    /\ handles[h].addr[1] = "shm"
    /\ MappingOf(h).id = handles[h].id
    /\ ValidId(kern, handles[h].id)

\* C1: a handle created by SharedMemory::new has had no detach while it is
\* alive and exactly one, on the address it is mapped at, once it is
\* destroyed; when the owning scope has been left (by return, by `?`, by a
\* panic) every such handle has been destroyed.
C1_DetachExactlyOnce ==
    /\ \A h \in HandleIds :
         /\ handles[h].st = "none" => dtlog[h] = <<>>
         /\ FromNew(h) /\ Live(h) => dtlog[h] = <<>>
         /\ FromNew(h) /\ handles[h].st = "dead" =>
              /\ Len(dtlog[h]) = 1
              /\ dtlog[h][1].name = "shmdt"
              /\ dtlog[h][1].ptr = handles[h].addr
              /\ handles[h].addr[1] = "shm"
    /\ status = "exited" => \A h \in HandleIds : FromNew(h) => handles[h].st = "dead"

C1_Witness ==
    /\ status = "exited"
    /\ last.path = "early"
    /\ \E h \in HandleIds : FromNew(h) /\ handles[h].st = "dead" /\ Len(dtlog[h]) = 1

\* C2: a handle cannot be copied: every live handle owns a mapping of its
\* segment, no two live handles own the same address, and every detach
\* issued was on an address attached at that moment.
C2_NotCopyable ==
    /\ \A h \in HandleIds : Live(h) => MappingValid(h)
    /\ \A h1, h2 \in HandleIds :
         Live(h1) /\ Live(h2) /\ h1 # h2 => handles[h1].addr # handles[h2].addr
    /\ \A h \in HandleIds : \A i \in 1..Len(dtlog[h]) : dtlog[h][i].rv = 0

\* C3: exclusive creation of a key that a segment holds fails with EEXIST,
\* creates no segment and no handle, and leaves the kernel state untouched.
RequestsExclusive(l) ==
    \/ l.op = "setup"
    \/ l.op = "shmget" /\ HasBits(l.flag, BitOr(IPC_CREAT, IPC_EXCL))
RequestedKey(l) == l.n

C3_ExclusiveStep ==
    (/\ RequestsExclusive(last')
     /\ RequestedKey(last') # IPC_PRIVATE
     /\ KeyOwners(kern, RequestedKey(last')) # {})
    => /\ ~last'.ret.ok
       /\ last'.ret.errno = "EEXIST"
       /\ kern' = kern
       /\ handles' = handles

C3_ExclusiveCreateFails == [][C3_ExclusiveStep]_vars

C3_Witness ==
    /\ last.op = "setup"
    /\ ~last.ret.ok
    /\ last.ret.errno = "EEXIST"
    /\ \E h \in HandleIds : Live(h) /\ handles[h].fixture /\ MappingValid(h)
                               /\ kern.seg[handles[h].id].key = SHM_TEST

\* C4: a read through an attached handle yields the value last written to
\* its segment through any attached handle.
C4_ReadSeesLastWrite ==
    /\ \A h \in HandleIds :
         Attached(h) /\ written[handles[h].id].has =>
            deref(kern, heap, handles[h]) = written[handles[h].id].v
    /\ last.op = "deref" /\ Attached(last.h)
          /\ written[handles[last.h].id].has
       => last.ret.val = written[handles[last.h].id].v

C4_Witness ==
    /\ last.op = "deref"
    /\ Attached(last.h)
    /\ MappingOf(last.h).ro
    /\ \E w \in HandleIds :
         /\ w # last.h
         /\ Attached(w)
         /\ ~MappingOf(w).ro
         /\ handles[w].id = handles[last.h].id
         /\ written[handles[w].id] = [has |-> TRUE, v |-> 1]
    /\ last.ret.val = 1

\* C5: a created segment is gone only if it was marked for removal and has
\* no attachment; every attached handle's mapping stays valid; destroying
\* a handle never destroys a segment that was not marked.
C5_State ==
    /\ \A s \in SegIds :
         Created(s) /\ ~kern.seg[s].exists => kern.seg[s].dest /\ kern.seg[s].nattch = 0
    /\ \A h \in HandleIds : Attached(h) => MappingValid(h)

C5_DropStep ==
    last'.op = "drop" =>
        \A s \in SegIds :
            kern.seg[s].exists /\ ~kern.seg[s].dest =>
                kern'.seg[s].exists /\ ~kern'.seg[s].dest

C5_DeferredDestruction == []C5_State /\ [][C5_DropStep]_vars

C5_Witness ==
    /\ last.op = "shmctl"
    /\ last.ret.ok
    /\ last.flag = IPC_RMID
    /\ Attached(last.h)
    /\ kern.seg[handles[last.h].id].dest
    /\ MappingValid(last.h)

\* C6: a segment that is marked and unattached is released, exclusive
\* creation of a key succeeds once every segment created under it is
\* marked and unattached, and setup succeeds after completed fixture
\* cycles (each segment of SHM_TEST belongs to a dropped fixture).
C6_State ==
    \A s \in SegIds : kern.seg[s].dest /\ kern.seg[s].nattch = 0 => ~kern.seg[s].exists

C6_AfterRemoval ==
    (/\ RequestsExclusive(last')
     /\ RequestedKey(last') # IPC_PRIVATE
     /\ \A s \in SegIds :
           Created(s) /\ kern.seg[s].ckey = RequestedKey(last') =>
               kern.seg[s].dest /\ kern.seg[s].nattch = 0)
    => last'.sys[1].rv # -1

C6_AfterCycles ==
    (/\ last'.op = "setup"
     /\ \A h \in HandleIds : handles[h].fixture => handles[h].st = "dead"
     /\ \A s \in SegIds :
           Created(s) /\ kern.seg[s].ckey = SHM_TEST =>
               /\ kern.seg[s].nattch = 0
               /\ \E h \in HandleIds : handles[h].fixture /\ handles[h].id = s)
    => last'.sys[1].rv # -1

C6_KeyFreeAfterRemoval == []C6_State /\ [][C6_AfterRemoval /\ C6_AfterCycles]_vars

C6_Witness ==
    /\ last.op = "setup"
    /\ last.ret.ok
    /\ \E h \in HandleIds :
         /\ handles[h].fixture
         /\ handles[h].st = "dead"
         /\ ~kern.seg[handles[h].id].exists
         /\ kern.seg[handles[h].id].ckey = SHM_TEST

\* C7: shmctl passes the handle's identifier, a null pointer when no
\* buffer is given and otherwise the caller's status structure: after a
\* successful IPC_STAT the caller's buffer holds the segment's status, and
\* for IPC_SET the kernel receives the caller's values.
C7_ControlMapsDirectly ==
    last.op = "shmctl" =>
        LET c == last.sys[1]
            buf == last.opt
        IN  /\ c.id = handles[last.h].id
            /\ ~IsSome(buf) => c.ptr = NULL
            /\ IsSome(buf) => c.ptr = AddrOfCallerBuf
            /\ last.ret.ok /\ last.flag = IPC_STAT =>
                  last.out.caller = Some(ShmidDs(kern.seg[c.id].perm))
            /\ last.ret.ok /\ last.flag = IPC_SET => last.out.read = Unwrap(buf)

\* C8: new passes the identifier unchanged, a null address when none is
\* preferred and the preferred address itself otherwise, and the flag word
\* is the bitwise or of the attach flags and the mode.
C8_ConstructMapsDirectly ==
    last.op = "new" =>
        LET c == last.sys[1]
        IN  /\ c.id = last.n
            /\ c.ptr = IF IsSome(last.opt) THEN Unwrap(last.opt) ELSE NULL
            /\ c.flags = BitOr(last.flag, last.mode)

\* C9: shmget, new and shmctl make one syscall; its failure is returned as
\* an error carrying the errno; a failed new leaves no handle and no detach,
\* a failed shmctl leaves the handle attached.
Failed(c) == IF c.name = "shmat" THEN c.rvp = MAP_FAILED ELSE c.rv = -1

C9_State ==
    /\ last.op \in {"shmget", "new", "shmctl"} =>
         /\ Len(last.sys) = 1
         /\ last.ret.ok <=> ~Failed(last.sys[1])
         /\ ~last.ret.ok => last.ret.errno = last.sys[1].errno /\ last.ret.errno # "none"
    /\ \A h \in HandleIds : handles[h].st = "none" => dtlog[h] = <<>>
    /\ \A h \in HandleIds : Attached(h) => MappingValid(h)

C9_FailStep ==
    last'.op \in {"shmget", "new", "shmctl"} /\ Failed(last'.sys[1])
    => /\ handles' = handles
       /\ dtlog' = dtlog
       /\ kern' = kern

C9_ErrorsPropagate == []C9_State /\ [][C9_FailStep]_vars

C9_Witness ==
    /\ last.op = "shmctl"
    /\ ~last.ret.ok
    /\ last.ret.errno = "EINVAL"
    /\ Attached(last.h)
    /\ MappingValid(last.h)

\* C10: a detach that fails inside the destructor panics: it is neither
\* swallowed nor returned.
FailedDetach(l) == \E i \in 1..Len(l.sys) : l.sys[i].name = "shmdt" /\ l.sys[i].rv = -1

C10_DetachFailureIsFatal ==
    last.op \in {"drop", "fixture_drop"} /\ FailedDetach(last) =>
        /\ last.panicked
        /\ status \in {"unwinding", "aborted"}

C10_Witness ==
    /\ last.op = "drop"
    /\ FailedDetach(last)
    /\ last.sys[1].errno = "EINVAL"
    /\ status = "unwinding"

====
